---- MODULE Spec2Model ----
(***************************************************************************)
(* A model of the horse-racing scraper: the concurrent scrape pipeline of  *)
(* scripts/rpscrape.py (scrape_races and its worker, process) and the      *)
(* retry driver of scripts/retry_failed.py (main and extract_dates).       *)
(***************************************************************************)
EXTENDS Integers, Sequences, FiniteSets, TLC

(***************************************************************************)
(* Bounds of the model.                                                    *)
(***************************************************************************)
MaxUrls == 2          \* longest race_urls sequence
RowsPerRace == 2      \* rows in the csv_data of one extracted race
MaxPathLen == 3       \* most parts of a log path
MaxLogLen == 8        \* longest log text given to extract_dates alone
MaxQueries == 2       \* most listing requests of one discovery pass
MaxItems == 2         \* most races or links of one listing response

(***************************************************************************)
(* Program constants.                                                      *)
(***************************************************************************)
MinJobs == 1          \* max(1, ...)
MaxJobs == 10         \* min(10, jobs)
DEFAULT_JOBS == 6

VARIABLES
    \* ---- scrape_races ----
    total,          \* len(race_urls); the URLs are the indices 1..total
    fate,           \* what the remote source and the extractor do for each URL
    code,           \* the requested discipline
    requested,      \* the jobs argument as passed by the caller
    jobs,           \* the local jobs after clamping (0: not yet clamped)
    pc,             \* position of the main thread in scrape_races
    out_dir,        \* TRUE once out_dir.mkdir ran
    betfair,        \* None, or the side dataset (with the URLs it was built from)
    betfairBuilds,  \* number of Betfair(...) constructions of this run
    betfair_file,   \* the side-dataset artifact
    submitted,      \* number of futures submitted so far
    phase,          \* per job: "new", "queued", "fetching", "finished"
    fetches,        \* per job: number of requests.get calls made
    seen,           \* per job: <<>>, or <<the betfair value its worker read>>
    outcome,        \* per job: the state of its future once finished
    yielded,        \* the indices in the order as_completed yielded them
    results,        \* the results list
    main_file,      \* the main output artifact
    cursor,         \* position of the write loop: <<result number, row number>>
    \* ---- a second call with the same URLs ----
    round,          \* 1 in the first call of scrape_races, 2 in the second
    first,          \* what the first call left behind
    \* ---- retry_failed.main ----
    log_path,       \* the parts of the resolved --log path
    log_exists,     \* whether that path exists when main starts
    args_region,    \* --region (NoRegion: not given)
    args_jobs,      \* --jobs
    log,            \* the text of the log file, a sequence of characters
    backup,         \* the file at backup_path
    rpc,            \* position of main
    exit_code,      \* the exit status (-1 while main runs)
    region,         \* the local region
    dates,          \* the local dates
    rjobs,          \* the local jobs (0: not yet set)
    d,              \* number of dates the for loop has taken
    cmds,           \* the sub-runs started so far
    returncodes,    \* their return codes
    invocation,     \* 1 in the first invocation of main, 2 in the one after it
    \* ---- what an observer of one invocation records ----
    log0,           \* the text of the log when main started
    backup0,        \* the file at backup_path when main started
    events,         \* "backup", "truncate", "subrun" in the order they happened
    appended,       \* the text the sub-runs' scrapes appended to the log
    \* ---- get_race_urls, get_race_urls_date ----
    mode,           \* "course": get_race_urls, "date": get_race_urls_date
    queries,        \* per listing request: the track or the date it asks for
    listings,       \* per listing request: the response
    qn,             \* number of listing requests done
    urls,           \* the local urls
    dpc,            \* "idle", "loop", "returned" or "raised"
    url_list         \* the returned list

scrapeVars == <<total, fate, code, requested, jobs, pc, out_dir, betfair,
                betfairBuilds, betfair_file, submitted, phase, fetches, seen,
                outcome, yielded, results, main_file, cursor, round, first>>

retryVars == <<log_path, log_exists, args_region, args_jobs, log, backup, rpc,
               exit_code, region, dates, rjobs, d, cmds, returncodes,
               invocation, log0, backup0, events, appended>>

discVars == <<mode, queries, listings, qn, urls, dpc, url_list>>

vars == <<scrapeVars, retryVars, discVars>>

(***************************************************************************)
(* Values.                                                                 *)
(***************************************************************************)
RTypes == {"Flat", "Chase", "Hurdle", "NH Flat"}
Failures == {"fetch_error", "doc_error", "void", "parse_error"}
Fates == Failures \cup RTypes
Codes == {"flat", "jumps"}
RequestedJobs == {-1, 0, 2, 11}

NoFile == [exists |-> FALSE, open |-> FALSE, lines |-> <<>>]
None == [built |-> FALSE, data |-> {}]
NoFuture == [raised |-> FALSE, rows |-> <<>>]
NoFirst == [file |-> NoFile, jobs |-> 0]

csv_header == <<0, 0>>
csv_data(idx) == [k \in 1..RowsPerRace |-> <<idx, k>>]

Max(a, b) == IF a >= b THEN a ELSE b
Min(a, b) == IF a <= b THEN a ELSE b

\* jobs = max(1, min(10, jobs))
Clamp(j) == Max(MinJobs, Min(MaxJobs, j))

InFlight == {i \in 1..total : phase[i] = "fetching"}

(***************************************************************************)
(* process(idx, url): the state of the job's future when the call ends.    *)
(* requests.get is inside a try; html.fromstring is not; the Race          *)
(* constructor is inside a try that catches VoidRaceError and Exception.   *)
(***************************************************************************)
Returned(rows) == [raised |-> FALSE, rows |-> rows]
Raised == [raised |-> TRUE, rows |-> <<>>]

KeepsAll(c, r_type) == TRUE
Keeps(c, r_type) ==
    /\ ~(c = "flat" /\ r_type # "Flat")
    /\ ~(c = "jumps" /\ r_type \notin {"Chase", "Hurdle", "NH Flat"})

process(idx) ==
    CASE fate[idx] = "fetch_error" -> Returned(<<>>)
      [] fate[idx] = "doc_error"   -> Raised
      [] fate[idx] = "void"        -> Returned(<<>>)
      [] fate[idx] = "parse_error" -> Returned(<<>>)
      [] OTHER -> IF Keeps(code, fate[idx]) THEN Returned(csv_data(idx))
                                            ELSE Returned(<<>>)

(***************************************************************************)
(* results.sort(key=lambda x: x[0]): a stable sort by index.               *)
(***************************************************************************)
RECURSIVE Insert(_, _)
Insert(x, s) ==
    IF s = <<>> THEN <<x>>
    ELSE IF x[1] < s[1][1] THEN <<x>> \o s
    ELSE <<s[1]>> \o Insert(x, Tail(s))

RECURSIVE InsertionSort(_)
InsertionSort(s) ==
    IF s = <<>> THEN <<>>
    ELSE Insert(s[Len(s)], InsertionSort(SubSeq(s, 1, Len(s) - 1)))

Unsorted(s) == s
SortByIndex(s) == InsertionSort(s)

(***************************************************************************)
(* Text.  A string is a sequence of characters; Chars lists the characters *)
(* of the model in code point order, which is the order Python compares    *)
(* strings by.                                                             *)
(***************************************************************************)
Chars == <<"\n", " ", "'", "-", "/", "1", "2", "h">>
Ord(c) == CHOOSE n \in 1..Len(Chars) : Chars[n] = c

\* a < b for two str values
StrLess(a, b) ==
    \E k \in 1..(Min(Len(a), Len(b)) + 1) :
        /\ \A j \in 1..(k - 1) : a[j] = b[j]
        /\ \/ k = Len(a) + 1 /\ k <= Len(b)
           \/ k <= Len(a) /\ k <= Len(b) /\ Ord(a[k]) < Ord(b[k])

\* s.split(sep): the pieces between the separators, empty ones included
RECURSIVE SplitFrom(_, _, _, _)
SplitFrom(s, sep, done, cur) ==
    IF s = <<>> THEN Append(done, cur)
    ELSE IF s[1] = sep THEN SplitFrom(Tail(s), sep, Append(done, cur), <<>>)
    ELSE SplitFrom(Tail(s), sep, done, Append(cur, s[1]))

Split(s, sep) == SplitFrom(s, sep, <<>>, <<>>)

\* s.splitlines(): as split on the line break, without a last empty line
RECURSIVE LinesFrom(_, _, _)
LinesFrom(s, done, cur) ==
    IF s = <<>> THEN (IF cur = <<>> THEN done ELSE Append(done, cur))
    ELSE IF s[1] = "\n" THEN LinesFrom(Tail(s), Append(done, cur), <<>>)
    ELSE LinesFrom(Tail(s), done, Append(cur, s[1]))

splitlines(s) == LinesFrom(s, <<>>, <<>>)

\* s.replace(old, new) for single characters
replace(s, old, new) == [k \in 1..Len(s) |-> IF s[k] = old THEN new ELSE s[k]]

\* sorted(a set of str)
RECURSIVE sorted(_)
sorted(S) ==
    IF S = {} THEN <<>>
    ELSE LET least == CHOOSE x \in S : \A y \in S \ {x} : StrLess(x, y)
         IN  <<least>> \o sorted(S \ {least})

(***************************************************************************)
(* extract_dates(log_path), on the text of the log.                        *)
(***************************************************************************)
\* len(parts) < 2: continue
TooShort(parts) == Len(parts) < 2

\* date_part = parts[-2]
DatePart(parts) == parts[Len(parts) - 1]

\* len(date_part.split('-')) == 3
AtLeastThreeParts(date_part) == Len(Split(date_part, "-")) >= 3
IsDate(date_part) == Len(Split(date_part, "-")) = 3

extract_dates(text) ==
    LET lines == splitlines(text)
        split == {Split(lines[k], "/") : k \in 1..Len(lines)}
        found == {DatePart(parts) : parts \in {x \in split : ~TooShort(x)}}
    IN  sorted({date_part \in found : IsDate(date_part)})

(***************************************************************************)
(* retry_failed.main: values.                                              *)
(***************************************************************************)
NoRegion == "<None>"
Segments == {"dates", "gb", "log"}
Paths == UNION {[1..n -> Segments] : n \in 1..MaxPathLen}
ArgsRegions == {NoRegion, "", "gb"}
ArgsJobs == RequestedJobs \cup {DEFAULT_JOBS}

DateA == <<"1", "-", "1", "-", "1">>
DateB == <<"2", "-", "1", "-", "1">>
LogLine(date, id) == date \o <<"/">> \o id \o <<"\n">>

\* The logs main is run on: empty; without a date; one date; two dates, out of
\* order and one of them twice.
SampleLogs ==
    { <<>>,
      <<"1", "2", "\n">>,
      LogLine(DateA, <<"2">>),
      LogLine(DateB, <<"1">>) \o LogLine(DateA, <<"2">>) \o LogLine(DateA, <<"1">>) }

\* What a failing scrape of a sub-run appends to the log.
NewFailure == LogLine(DateB, <<"2">>)

NoBackup == [exists |-> FALSE, content |-> <<>>]
OldBackup == [exists |-> TRUE, content |-> <<"2", "\n">>]

RetryIdle ==
    /\ log_path = <<>>
    /\ log_exists = FALSE
    /\ args_region = NoRegion
    /\ args_jobs = DEFAULT_JOBS
    /\ log = <<>>
    /\ backup = NoBackup
    /\ rpc = "idle"
    /\ exit_code = -1
    /\ region = NoRegion
    /\ dates = <<>>
    /\ rjobs = 0
    /\ d = 0
    /\ cmds = <<>>
    /\ returncodes = <<>>
    /\ invocation = 1
    /\ log0 = <<>>
    /\ backup0 = NoBackup
    /\ events = <<>>
    /\ appended = <<>>

DiscoverIdle ==
    /\ mode = "course"
    /\ queries = <<>>
    /\ listings = <<>>
    /\ qn = 0
    /\ urls = {}
    /\ dpc = "idle"
    /\ url_list = <<>>

(***************************************************************************)
(* The state after the call of scrape_races, before its first statement.   *)
(***************************************************************************)
Init ==
    /\ total \in 0..MaxUrls
    /\ fate \in [1..total -> Fates]
    /\ code \in Codes
    /\ requested \in RequestedJobs
    /\ jobs = 0
    /\ pc = "start"
    /\ out_dir = FALSE
    /\ betfair = None
    /\ betfairBuilds = 0
    /\ betfair_file = NoFile
    /\ submitted = 0
    /\ phase = [i \in 1..total |-> "new"]
    /\ fetches = [i \in 1..total |-> 0]
    /\ seen = [i \in 1..total |-> <<>>]
    /\ outcome = [i \in 1..total |-> NoFuture]
    /\ yielded = <<>>
    /\ results = <<>>
    /\ main_file = NoFile
    /\ cursor = <<0, 0>>
    /\ round = 1
    /\ first = NoFirst
    /\ RetryIdle
    /\ DiscoverIdle

(***************************************************************************)
(* Betfair(race_urls): the side dataset built from the whole URL set, and  *)
(* the lines of its artifact (a header, then one line per row).            *)
(***************************************************************************)
Betfair(race_urls) == [built |-> TRUE, data |-> race_urls]
BetfairLines(b) == <<csv_header>> \o [i \in 1..Cardinality(b.data) |-> <<i, 0>>]

(***************************************************************************)
(* scrape_races, the main thread.                                          *)
(***************************************************************************)
\* out_dir.mkdir(parents=True, exist_ok=True)
Prepare ==
    /\ pc = "start"
    /\ out_dir' = TRUE
    /\ pc' = "betfair"
    /\ UNCHANGED <<total, fate, code, requested, jobs, betfair, betfairBuilds,
                   betfair_file, submitted, phase, fetches, seen, outcome,
                   yielded, results, main_file, cursor, round, first>>
    /\ UNCHANGED retryVars
    /\ UNCHANGED discVars

\* if fetch_betfair and settings.toml and settings.toml.get('betfair_data', False)
BetfairStep ==
    /\ pc = "betfair"
    /\ \E fetch_betfair \in BOOLEAN, betfair_data \in BOOLEAN :
          IF fetch_betfair /\ betfair_data
          THEN /\ betfair' = Betfair(1..total)
               /\ betfairBuilds' = betfairBuilds + 1
               /\ pc' = "betfair_write"
          ELSE /\ pc' = "count"
               /\ UNCHANGED <<betfair, betfairBuilds>>
    /\ UNCHANGED <<total, fate, code, requested, jobs, out_dir, betfair_file,
                   submitted, phase, fetches, seen, outcome, yielded, results,
                   main_file, cursor, round, first>>
    /\ UNCHANGED retryVars
    /\ UNCHANGED discVars

\* with file_writer(str(betfair_dir / f'{file_name}.csv')) as f: ...
WriteBetfairLater ==
    /\ pc = "betfair_write"
    /\ betfair_file' = [exists |-> TRUE, open |-> TRUE, lines |-> <<>>]
    /\ pc' = "count"
    /\ UNCHANGED <<total, fate, code, requested, jobs, out_dir, betfair,
                   betfairBuilds, submitted, phase, fetches, seen, outcome,
                   yielded, results, main_file, cursor, round, first>>
    /\ UNCHANGED retryVars
    /\ UNCHANGED discVars
WriteBetfair ==
    /\ pc = "betfair_write"
    /\ betfair_file' = [exists |-> TRUE, open |-> FALSE, lines |-> BetfairLines(betfair)]
    /\ pc' = "count"
    /\ UNCHANGED <<total, fate, code, requested, jobs, out_dir, betfair,
                   betfairBuilds, submitted, phase, fetches, seen, outcome,
                   yielded, results, main_file, cursor, round, first>>
    /\ UNCHANGED retryVars
    /\ UNCHANGED discVars

\* if total == 0: return
NoRaces ==
    /\ pc = "count"
    /\ total = 0
    /\ pc' = "returned"
    /\ UNCHANGED <<total, fate, code, requested, jobs, out_dir, betfair,
                   betfairBuilds, betfair_file, submitted, phase, fetches, seen,
                   outcome, yielded, results, main_file, cursor, round, first>>
    /\ UNCHANGED retryVars
    /\ UNCHANGED discVars

\* jobs = max(1, min(10, jobs))
ClampJobs ==
    /\ pc = "count"
    /\ total # 0
    /\ jobs' = Clamp(requested)
    /\ pc' = "submit"
    /\ UNCHANGED <<total, fate, code, requested, out_dir, betfair, betfairBuilds,
                   betfair_file, submitted, phase, fetches, seen, outcome,
                   yielded, results, main_file, cursor, round, first>>
    /\ UNCHANGED retryVars
    /\ UNCHANGED discVars

\* executor.submit(process, idx, url) for idx, url in enumerate(race_urls, start=1)
Submit ==
    /\ pc = "submit"
    /\ submitted < total
    /\ submitted' = submitted + 1
    /\ phase' = [phase EXCEPT ![submitted + 1] = "queued"]
    /\ pc' = IF submitted + 1 = total THEN "collect" ELSE "submit"
    /\ UNCHANGED <<total, fate, code, requested, jobs, out_dir, betfair,
                   betfairBuilds, betfair_file, fetches, seen, outcome, yielded,
                   results, main_file, cursor, round, first>>
    /\ UNCHANGED retryVars
    /\ UNCHANGED discVars

(***************************************************************************)
(* The pool: ThreadPoolExecutor(max_workers=jobs).  A free worker takes    *)
(* the oldest queued work item and calls process: it blocks in             *)
(* requests.get, and what follows the fetch runs to the end of the call.   *)
(***************************************************************************)
Unbounded(i) == TRUE
WorkerFree(i) == Cardinality(InFlight) < jobs

StartJob(i) ==
    /\ phase[i] = "queued"
    /\ \A j \in 1..(i - 1) : phase[j] # "queued"
    /\ WorkerFree(i)
    /\ phase' = [phase EXCEPT ![i] = "fetching"]
    /\ fetches' = [fetches EXCEPT ![i] = @ + 1]
    /\ UNCHANGED <<total, fate, code, requested, jobs, pc, out_dir, betfair,
                   betfairBuilds, betfair_file, submitted, seen, outcome,
                   yielded, results, main_file, cursor, round, first>>
    /\ UNCHANGED retryVars
    /\ UNCHANGED discVars

FinishJobRetrying(i) ==
    /\ phase[i] = "fetching"
    /\ IF fate[i] = "fetch_error" /\ fetches[i] < 2
       THEN /\ phase' = [phase EXCEPT ![i] = "queued"]
            /\ UNCHANGED <<outcome, seen>>
       ELSE /\ phase' = [phase EXCEPT ![i] = "finished"]
            /\ outcome' = [outcome EXCEPT ![i] = process(i)]
            /\ seen' = [seen EXCEPT ![i] =
                           IF fate[i] \in {"fetch_error", "doc_error"} THEN @ ELSE <<betfair>>]
    /\ UNCHANGED <<total, fate, code, requested, jobs, pc, out_dir, betfair,
                   betfairBuilds, betfair_file, submitted, fetches, yielded,
                   results, main_file, cursor, round, first>>
    /\ UNCHANGED retryVars
    /\ UNCHANGED discVars
FinishJob(i) ==
    /\ phase[i] = "fetching"
    /\ phase' = [phase EXCEPT ![i] = "finished"]
    /\ outcome' = [outcome EXCEPT ![i] = process(i)]
    /\ seen' = [seen EXCEPT ![i] =
                   IF fate[i] \in {"fetch_error", "doc_error"} THEN @ ELSE <<betfair>>]
    /\ UNCHANGED <<total, fate, code, requested, jobs, pc, out_dir, betfair,
                   betfairBuilds, betfair_file, submitted, fetches, yielded,
                   results, main_file, cursor, round, first>>
    /\ UNCHANGED retryVars
    /\ UNCHANGED discVars

(***************************************************************************)
(* for future in as_completed(future_map): results.append(future.result()) *)
(* future.result() re-raises what process raised; the with statement then  *)
(* waits for the jobs still queued or running and the exception leaves     *)
(* scrape_races.                                                           *)
(***************************************************************************)
Yielded == {yielded[n] : n \in 1..Len(yielded)}

CollectFirstOnly(i) ==
    /\ pc = "collect"
    /\ phase[i] = "finished"
    /\ i \notin Yielded
    /\ yielded' = Append(yielded, i)
    /\ IF outcome[i].raised
       THEN /\ pc' = "unwind"
            /\ UNCHANGED results
       ELSE /\ results' = Append(results, <<i, outcome[i].rows>>)
            /\ pc' = "sort"
    /\ UNCHANGED <<total, fate, code, requested, jobs, out_dir, betfair,
                   betfairBuilds, betfair_file, submitted, phase, fetches, seen,
                   outcome, main_file, cursor, round, first>>
    /\ UNCHANGED retryVars
    /\ UNCHANGED discVars
Collect(i) ==
    /\ pc = "collect"
    /\ phase[i] = "finished"
    /\ i \notin Yielded
    /\ yielded' = Append(yielded, i)
    /\ IF outcome[i].raised
       THEN /\ pc' = "unwind"
            /\ UNCHANGED results
       ELSE /\ results' = Append(results, <<i, outcome[i].rows>>)
            /\ pc' = IF Len(yielded) + 1 = total THEN "sort" ELSE "collect"
    /\ UNCHANGED <<total, fate, code, requested, jobs, out_dir, betfair,
                   betfairBuilds, betfair_file, submitted, phase, fetches, seen,
                   outcome, main_file, cursor, round, first>>
    /\ UNCHANGED retryVars
    /\ UNCHANGED discVars

Unwind ==
    /\ pc = "unwind"
    /\ \A i \in 1..total : phase[i] = "finished"
    /\ pc' = "raised"
    /\ UNCHANGED <<total, fate, code, requested, jobs, out_dir, betfair,
                   betfairBuilds, betfair_file, submitted, phase, fetches, seen,
                   outcome, yielded, results, main_file, cursor, round, first>>
    /\ UNCHANGED retryVars
    /\ UNCHANGED discVars

\* results.sort(key=lambda x: x[0])
Sort ==
    /\ pc = "sort"
    /\ results' = SortByIndex(results)
    /\ pc' = "open"
    /\ UNCHANGED <<total, fate, code, requested, jobs, out_dir, betfair,
                   betfairBuilds, betfair_file, submitted, phase, fetches, seen,
                   outcome, yielded, main_file, cursor, round, first>>
    /\ UNCHANGED retryVars
    /\ UNCHANGED discVars

\* with file_writer(str(file_path)) as f:
OpenSink ==
    /\ pc = "open"
    /\ main_file' = [exists |-> TRUE, open |-> TRUE, lines |-> <<>>]
    /\ pc' = "header"
    /\ UNCHANGED <<total, fate, code, requested, jobs, out_dir, betfair,
                   betfairBuilds, betfair_file, submitted, phase, fetches, seen,
                   outcome, yielded, results, cursor, round, first>>
    /\ UNCHANGED retryVars
    /\ UNCHANGED discVars

\* f.write(csv_header + '\n')
WriteHeader ==
    /\ pc = "header"
    /\ main_file' = [main_file EXCEPT !.lines = Append(@, csv_header)]
    /\ cursor' = <<1, 1>>
    /\ pc' = "rows"
    /\ UNCHANGED <<total, fate, code, requested, jobs, out_dir, betfair,
                   betfairBuilds, betfair_file, submitted, phase, fetches, seen,
                   outcome, yielded, results, round, first>>
    /\ UNCHANGED retryVars
    /\ UNCHANGED discVars

\* for row in rows: f.write(row + '\n')
WriteRow ==
    /\ pc = "rows"
    /\ cursor[1] <= Len(results)
    /\ cursor[2] <= Len(results[cursor[1]][2])
    /\ main_file' = [main_file EXCEPT !.lines = Append(@, results[cursor[1]][2][cursor[2]])]
    /\ cursor' = <<cursor[1], cursor[2] + 1>>
    /\ UNCHANGED <<total, fate, code, requested, jobs, pc, out_dir, betfair,
                   betfairBuilds, betfair_file, submitted, phase, fetches, seen,
                   outcome, yielded, results, round, first>>
    /\ UNCHANGED retryVars
    /\ UNCHANGED discVars

\* for _, rows in results: the next result
NextResult ==
    /\ pc = "rows"
    /\ cursor[1] <= Len(results)
    /\ cursor[2] > Len(results[cursor[1]][2])
    /\ cursor' = <<cursor[1] + 1, 1>>
    /\ UNCHANGED <<total, fate, code, requested, jobs, pc, out_dir, betfair,
                   betfairBuilds, betfair_file, submitted, phase, fetches, seen,
                   outcome, yielded, results, main_file, round, first>>
    /\ UNCHANGED retryVars
    /\ UNCHANGED discVars

\* the end of the with statement closes the file
CloseSink ==
    /\ pc = "rows"
    /\ cursor[1] > Len(results)
    /\ main_file' = [main_file EXCEPT !.open = FALSE]
    /\ pc' = "done"
    /\ UNCHANGED <<total, fate, code, requested, jobs, out_dir, betfair,
                   betfairBuilds, betfair_file, submitted, phase, fetches, seen,
                   outcome, yielded, results, cursor, round, first>>
    /\ UNCHANGED retryVars
    /\ UNCHANGED discVars

Ended == pc \in {"returned", "raised", "done"}

(***************************************************************************)
(* The interactive loop of main calls scrape_races again: the same query   *)
(* (the same URLs, the same responses) with another jobs value.            *)
(***************************************************************************)
Rerun ==
    /\ Ended
    /\ round = 1
    /\ round' = 2
    /\ first' = [file |-> main_file, jobs |-> jobs]
    /\ requested' \in RequestedJobs
    /\ jobs' = 0
    /\ pc' = "start"
    /\ out_dir' = FALSE
    /\ betfair' = None
    /\ betfairBuilds' = 0
    /\ betfair_file' = NoFile
    /\ submitted' = 0
    /\ phase' = [i \in 1..total |-> "new"]
    /\ fetches' = [i \in 1..total |-> 0]
    /\ seen' = [i \in 1..total |-> <<>>]
    /\ outcome' = [i \in 1..total |-> NoFuture]
    /\ yielded' = <<>>
    /\ results' = <<>>
    /\ main_file' = NoFile
    /\ cursor' = <<0, 0>>
    /\ UNCHANGED <<total, fate, code>>
    /\ UNCHANGED retryVars
    /\ UNCHANGED discVars

ScrapeNext ==
    \/ Prepare
    \/ BetfairStep
    \/ WriteBetfair
    \/ NoRaces
    \/ ClampJobs
    \/ Submit
    \/ \E i \in 1..total : StartJob(i)
    \/ \E i \in 1..total : FinishJob(i)
    \/ \E i \in 1..total : Collect(i)
    \/ Unwind
    \/ Sort
    \/ OpenSink
    \/ WriteHeader
    \/ WriteRow
    \/ NextResult
    \/ CloseSink

Next == ScrapeNext

Spec == Init /\ [][Next]_vars

\* The main thread runs on, and the pool's workers take queued jobs and end
\* their calls of process: a step that stays possible is taken.
SpecFair == Init /\ [][Next]_vars /\ WF_vars(Next)

PairNext == ScrapeNext \/ Rerun

SpecPair == Init /\ [][PairNext]_vars

(***************************************************************************)
(* retry_failed.main.                                                      *)
(***************************************************************************)
ScrapeIdle ==
    /\ total = 0
    /\ fate = <<>>
    /\ code = "flat"
    /\ requested = DEFAULT_JOBS
    /\ jobs = 0
    /\ pc = "idle"
    /\ out_dir = FALSE
    /\ betfair = None
    /\ betfairBuilds = 0
    /\ betfair_file = NoFile
    /\ submitted = 0
    /\ phase = <<>>
    /\ fetches = <<>>
    /\ seen = <<>>
    /\ outcome = <<>>
    /\ yielded = <<>>
    /\ results = <<>>
    /\ main_file = NoFile
    /\ cursor = <<0, 0>>
    /\ round = 1
    /\ first = NoFirst

\* The state when main is entered with its arguments parsed.
RetryInit ==
    /\ ScrapeIdle
    /\ DiscoverIdle
    /\ log_path \in Paths
    /\ log_exists \in BOOLEAN
    /\ args_region \in ArgsRegions
    /\ args_jobs \in ArgsJobs
    /\ log \in (IF log_exists THEN SampleLogs ELSE {<<>>})
    /\ backup \in {NoBackup, OldBackup}
    /\ rpc = "start"
    /\ exit_code = -1
    /\ region = NoRegion
    /\ dates = <<>>
    /\ rjobs = 0
    /\ d = 0
    /\ cmds = <<>>
    /\ returncodes = <<>>
    /\ invocation = 1
    /\ log0 = log
    /\ backup0 = backup
    /\ events = <<>>
    /\ appended = <<>>

\* if not log_path.exists(): sys.exit(1)
CheckLog ==
    /\ rpc = "start"
    /\ IF log_exists
       THEN rpc' = "region" /\ UNCHANGED exit_code
       ELSE rpc' = "exited" /\ exit_code' = 1
    /\ UNCHANGED <<log_path, log_exists, args_region, args_jobs, log, backup,
                   region, dates, rjobs, d, cmds, returncodes, log0, backup0,
                   events, appended>>
    /\ UNCHANGED invocation
    /\ UNCHANGED scrapeVars
    /\ UNCHANGED discVars

\* log_path.parts[log_path.parts.index('dates') + 1]: index raises ValueError
\* when no part is 'dates', the subscript raises IndexError when the first
\* 'dates' is the last part.
InferRegion(parts) ==
    LET at == {k \in 1..Len(parts) : parts[k] = "dates"}
        k0 == CHOOSE k \in at : \A j \in at : k <= j
    IN  IF at = {} THEN [raises |-> "ValueError", region |-> NoRegion]
        ELSE IF k0 + 1 > Len(parts) THEN [raises |-> "IndexError", region |-> NoRegion]
        ELSE [raises |-> "", region |-> parts[k0 + 1]]

\* region = args.region; try: if region is None: ... except ValueError: pass
\* An IndexError is not caught: the interpreter ends with status 1.
ResolveRegion ==
    /\ rpc = "region"
    /\ IF args_region # NoRegion
       THEN /\ region' = args_region
            /\ rpc' = "check"
            /\ UNCHANGED exit_code
       ELSE LET inferred == InferRegion(log_path)
            IN  IF inferred.raises = "IndexError"
                THEN /\ rpc' = "exited"
                     /\ exit_code' = 1
                     /\ UNCHANGED region
                ELSE /\ region' = inferred.region
                     /\ rpc' = "check"
                     /\ UNCHANGED exit_code
    /\ UNCHANGED <<log_path, log_exists, args_region, args_jobs, log, backup,
                   dates, rjobs, d, cmds, returncodes, log0, backup0, events,
                   appended>>
    /\ UNCHANGED invocation
    /\ UNCHANGED scrapeVars
    /\ UNCHANGED discVars

\* not region
IsEmptyString(r) == r = ""
NotRegion(r) == r = NoRegion \/ r = ""

\* if not region: sys.exit(1)
CheckRegion ==
    /\ rpc = "check"
    /\ IF NotRegion(region)
       THEN rpc' = "exited" /\ exit_code' = 1
       ELSE rpc' = "extract" /\ UNCHANGED exit_code
    /\ UNCHANGED <<log_path, log_exists, args_region, args_jobs, log, backup,
                   region, dates, rjobs, d, cmds, returncodes, log0, backup0,
                   events, appended>>
    /\ UNCHANGED invocation
    /\ UNCHANGED scrapeVars
    /\ UNCHANGED discVars

\* dates = extract_dates(log_path); if not dates: sys.exit(0)
ExtractDatesNoExit ==
    /\ rpc = "extract"
    /\ dates' = extract_dates(log)
    /\ rpc' = "clamp"
    /\ UNCHANGED <<log_path, log_exists, args_region, args_jobs, log, backup,
                   exit_code, region, rjobs, d, cmds, returncodes, log0,
                   backup0, events, appended>>
    /\ UNCHANGED invocation
    /\ UNCHANGED scrapeVars
    /\ UNCHANGED discVars

ExtractDates ==
    /\ rpc = "extract"
    /\ dates' = extract_dates(log)
    /\ IF dates' = <<>>
       THEN rpc' = "exited" /\ exit_code' = 0
       ELSE rpc' = "clamp" /\ UNCHANGED exit_code
    /\ UNCHANGED <<log_path, log_exists, args_region, args_jobs, log, backup,
                   region, rjobs, d, cmds, returncodes, log0, backup0, events,
                   appended>>
    /\ UNCHANGED invocation
    /\ UNCHANGED scrapeVars
    /\ UNCHANGED discVars

\* jobs = max(1, min(10, args.jobs))
ClampRetryJobs ==
    /\ rpc = "clamp"
    /\ rjobs' = Clamp(args_jobs)
    /\ rpc' = "backup"
    /\ UNCHANGED <<log_path, log_exists, args_region, args_jobs, log, backup,
                   exit_code, region, dates, d, cmds, returncodes, log0,
                   backup0, events, appended>>
    /\ UNCHANGED invocation
    /\ UNCHANGED scrapeVars
    /\ UNCHANGED discVars

\* shutil.copyfile(log_path, backup_path)
BackupSkipped ==
    /\ rpc = "backup"
    /\ events' = Append(events, "backup")
    /\ rpc' = "truncate"
    /\ UNCHANGED <<log_path, log_exists, args_region, args_jobs, log, backup,
                   exit_code, region, dates, rjobs, d, cmds, returncodes, log0,
                   backup0, appended>>
    /\ UNCHANGED invocation
    /\ UNCHANGED scrapeVars
    /\ UNCHANGED discVars

Backup ==
    /\ rpc = "backup"
    /\ backup' = [exists |-> TRUE, content |-> log]
    /\ events' = Append(events, "backup")
    /\ rpc' = "truncate"
    /\ UNCHANGED <<log_path, log_exists, args_region, args_jobs, log, exit_code,
                   region, dates, rjobs, d, cmds, returncodes, log0, backup0,
                   appended>>
    /\ UNCHANGED invocation
    /\ UNCHANGED scrapeVars
    /\ UNCHANGED discVars

\* log_path.write_text('', encoding='utf-8')
TruncateSkipped ==
    /\ rpc = "truncate"
    /\ events' = Append(events, "truncate")
    /\ rpc' = "loop"
    /\ UNCHANGED <<log_path, log_exists, args_region, args_jobs, log, backup,
                   exit_code, region, dates, rjobs, d, cmds, returncodes, log0,
                   backup0, appended>>
    /\ UNCHANGED invocation
    /\ UNCHANGED scrapeVars
    /\ UNCHANGED discVars

Truncate ==
    /\ rpc = "truncate"
    /\ log' = <<>>
    /\ events' = Append(events, "truncate")
    /\ rpc' = "loop"
    /\ UNCHANGED <<log_path, log_exists, args_region, args_jobs, backup,
                   exit_code, region, dates, rjobs, d, cmds, returncodes, log0,
                   backup0, appended>>
    /\ UNCHANGED invocation
    /\ UNCHANGED scrapeVars
    /\ UNCHANGED discVars

\* for d in dates: cmd = [..., '-d', date_arg, '-r', region, '-j', str(jobs)];
\* result = subprocess.run(cmd).  The sub-run ends with any return code, and a
\* scrape of it that failed has appended to the log.
SubRunStopOnFailure ==
    /\ rpc = "loop"
    /\ d < Len(dates)
    /\ cmds' = Append(cmds, [date_arg |-> replace(dates[d + 1], "-", "/"),
                             region |-> region, jobs |-> rjobs])
    /\ events' = Append(events, "subrun")
    /\ \E returncode \in {0, 1} :
          /\ returncodes' = Append(returncodes, returncode)
          /\ d' = IF returncode # 0 THEN Len(dates) ELSE d + 1
    /\ \E text \in {<<>>, NewFailure} :
          /\ log' = log \o text
          /\ appended' = appended \o text
    /\ UNCHANGED <<log_path, log_exists, args_region, args_jobs, backup,
                   rpc, exit_code, region, dates, rjobs, log0, backup0>>
    /\ UNCHANGED invocation
    /\ UNCHANGED scrapeVars
    /\ UNCHANGED discVars

SubRun ==
    /\ rpc = "loop"
    /\ d < Len(dates)
    /\ d' = d + 1
    /\ cmds' = Append(cmds, [date_arg |-> replace(dates[d + 1], "-", "/"),
                             region |-> region, jobs |-> rjobs])
    /\ events' = Append(events, "subrun")
    /\ \E returncode \in {0, 1} : returncodes' = Append(returncodes, returncode)
    /\ \E text \in {<<>>, NewFailure} :
          /\ log' = log \o text
          /\ appended' = appended \o text
    /\ UNCHANGED <<log_path, log_exists, args_region, args_jobs, backup,
                   rpc, exit_code, region, dates, rjobs, log0, backup0>>
    /\ UNCHANGED invocation
    /\ UNCHANGED scrapeVars
    /\ UNCHANGED discVars

\* the loop is over: main returns
Finish ==
    /\ rpc = "loop"
    /\ d = Len(dates)
    /\ rpc' = "exited"
    /\ exit_code' = 0
    /\ UNCHANGED <<log_path, log_exists, args_region, args_jobs, log, backup,
                   region, dates, rjobs, d, cmds, returncodes, log0, backup0,
                   events, appended>>
    /\ UNCHANGED invocation
    /\ UNCHANGED scrapeVars
    /\ UNCHANGED discVars

RetryNext ==
    \/ CheckLog
    \/ ResolveRegion
    \/ CheckRegion
    \/ ExtractDates
    \/ ClampRetryJobs
    \/ Backup
    \/ Truncate
    \/ SubRun
    \/ Finish

SpecRetry == RetryInit /\ [][RetryNext]_vars

(***************************************************************************)
(* The retry driver is run again on the same log, with the same arguments, *)
(* once its first invocation has exited.                                   *)
(***************************************************************************)
Again ==
    /\ rpc = "exited"
    /\ invocation = 1
    /\ invocation' = 2
    /\ rpc' = "start"
    /\ exit_code' = -1
    /\ region' = NoRegion
    /\ dates' = <<>>
    /\ rjobs' = 0
    /\ d' = 0
    /\ cmds' = <<>>
    /\ returncodes' = <<>>
    /\ log0' = log
    /\ backup0' = backup
    /\ events' = <<>>
    /\ appended' = <<>>
    /\ UNCHANGED <<log_path, log_exists, args_region, args_jobs, log, backup>>
    /\ UNCHANGED scrapeVars
    /\ UNCHANGED discVars

AgainNext == RetryNext \/ Again

SpecRetryAgain == RetryInit /\ [][AgainNext]_vars

(***************************************************************************)
(* extract_dates alone, on every text of up to MaxLogLen characters        *)
(* (a line break, a hyphen, a slash and one other character), called from  *)
(* main with the region given.                                             *)
(***************************************************************************)
DateChars == {"\n", "-", "/", "1"}
Texts == UNION {[1..n -> DateChars] : n \in 0..MaxLogLen}

DatesInit ==
    /\ ScrapeIdle
    /\ DiscoverIdle
    /\ log_path = <<"gb", "log">>
    /\ log_exists = TRUE
    /\ args_region = "gb"
    /\ args_jobs = DEFAULT_JOBS
    /\ log \in Texts
    /\ backup = NoBackup
    /\ rpc = "extract"
    /\ exit_code = -1
    /\ region = "gb"
    /\ dates = <<>>
    /\ rjobs = 0
    /\ d = 0
    /\ cmds = <<>>
    /\ returncodes = <<>>
    /\ invocation = 1
    /\ log0 = log
    /\ backup0 = NoBackup
    /\ events = <<>>
    /\ appended = <<>>

DatesNext == ExtractDates

SpecDates == DatesInit /\ [][DatesNext]_vars

(***************************************************************************)
(* get_race_urls(tracks, years, code) and get_race_urls_date(dates,        *)
(* region).  One listing request is made per (track, year) pair or per     *)
(* date; the responses are inputs.                                         *)
(***************************************************************************)
\* s.replace(old, '') for a single character
delete(s, old) == SelectSeq(s, LAMBDA c : c # old)

\* s[:n]
Prefix(s, n) == SubSeq(s, 1, Min(n, Len(s)))

\* "h" stands for the scheme and host every race URL starts with
url_result_base == <<"h">>

\* (course_id, course) pairs: one name holds a space, the other an apostrophe
Tracks ==
    { [course_id |-> <<"1">>, course |-> <<"1", " ", "2">>],
      [course_id |-> <<"2">>, course |-> <<"1", "'", "2">>] }

\* a day, and a time of day after the ten characters of the day
Day1 == <<"1", "1", "1", "1", "-", "1", "1", "-", "1", "1">>
ListedRaces ==
    { [raceDatetime |-> Day1 \o <<"-", "2">>, raceInstanceUid |-> <<"2">>],
      [raceDatetime |-> Day1 \o <<"-", "1">>, raceInstanceUid |-> <<"1">>] }

\* hrefs of the links of a results page: /section/course_id/race for two
\* races of a course of the region and one of another region's course, and
\* an href with too few parts
Hrefs ==
    { <<"/", "1", "/", "1", "/", "2">>,
      <<"/", "1", "/", "1", "/", "1">>,
      <<"/", "1", "/", "2", "/", "1">>,
      <<"/", "1">> }

\* {course[0] for course in courses(region)}
course_ids == {<<"1">>}

\* what one listing request asks for: a track (of some year) or a date
Queries(m) == IF m = "course" THEN Tracks ELSE {Day1}

\* sequences over S of at most n elements
UpTo(S, n) == UNION {[1..k -> S] : k \in 0..n}

\* A listing response: a body that does not parse (an empty body is one),
\* or the races (course mode) or links (date mode) of the parsed body.
Unparsable == [parsed |-> FALSE, items |-> <<>>]
Responses(m) ==
    {Unparsable} \cup
    {[parsed |-> TRUE, items |-> it] :
        it \in UpTo(IF m = "course" THEN ListedRaces ELSE Hrefs, MaxItems)}

\* race_url of one race of a track's listing, normalised
race_url(track, race) ==
    LET race_date == Prefix(race.raceDatetime, 10)
        race_id == race.raceInstanceUid
        url == url_result_base \o <<"/">> \o track.course_id \o <<"/">>
                 \o track.course \o <<"/">> \o race_date \o <<"/">> \o race_id
    IN  delete(replace(url, " ", "-"), "'")

\* href.split('/')[2] raises IndexError on fewer than three parts
HasCoursePart(href) == Len(Split(href, "/")) >= 2 + 1
course_id_of(href) == Split(href, "/")[2 + 1]

\* loads / html.fromstring raise on an unparsable body; the course id of a
\* link is read outside any try
ListingRaises(m, resp) ==
    \/ ~resp.parsed
    \/ m = "date" /\ \E k \in 1..Len(resp.items) : ~HasCoursePart(resp.items[k])

\* the URLs one listing adds to urls
ListingUrls(m, query, resp) ==
    IF m = "course"
    THEN {race_url(query, resp.items[k]) : k \in 1..Len(resp.items)}
    ELSE {url_result_base \o resp.items[k] :
             k \in {j \in 1..Len(resp.items) :
                       course_id_of(resp.items[j]) \in course_ids}}

DiscoverInit ==
    /\ ScrapeIdle
    /\ RetryIdle
    /\ mode \in {"course", "date"}
    /\ \E n \in 0..MaxQueries :
          /\ queries \in [1..n -> Queries(mode)]
          /\ listings \in [1..n -> Responses(mode)]
    /\ qn = 0
    /\ urls = {}
    /\ dpc = "loop"
    /\ url_list = <<>>

\* one round of the loop: the request, the parse and the adds
Listing ==
    /\ dpc = "loop"
    /\ qn < Len(listings)
    /\ LET resp == listings[qn + 1]
       IN  IF ListingRaises(mode, resp)
           THEN /\ dpc' = "raised"
                /\ UNCHANGED <<qn, urls>>
           ELSE /\ qn' = qn + 1
                /\ urls' = urls \cup ListingUrls(mode, queries[qn + 1], resp)
                /\ UNCHANGED dpc
    /\ UNCHANGED <<mode, queries, listings, url_list>>
    /\ UNCHANGED scrapeVars
    /\ UNCHANGED retryVars

\* return sorted(urls)
ReturnDescending ==
    /\ dpc = "loop"
    /\ qn = Len(listings)
    /\ dpc' = "returned"
    /\ url_list' = LET up == sorted(urls)
                   IN  [k \in 1..Len(up) |-> up[Len(up) + 1 - k]]
    /\ UNCHANGED <<mode, queries, listings, qn, urls>>
    /\ UNCHANGED scrapeVars
    /\ UNCHANGED retryVars
Return ==
    /\ dpc = "loop"
    /\ qn = Len(listings)
    /\ dpc' = "returned"
    /\ url_list' = sorted(urls)
    /\ UNCHANGED <<mode, queries, listings, qn, urls>>
    /\ UNCHANGED scrapeVars
    /\ UNCHANGED retryVars

DiscoverNext == Listing \/ Return

SpecDiscover == DiscoverInit /\ [][DiscoverNext]_vars

(***************************************************************************)
(* Properties of scrape_races.                                             *)
(***************************************************************************)
\* The rows the futures of jobs 1..n hold, job after job.
RECURSIVE RowsUpTo(_)
RowsUpTo(n) == IF n = 0 THEN <<>> ELSE RowsUpTo(n - 1) \o outcome[n].rows

IsPrefix(s, t) == Len(s) <= Len(t) /\ s = SubSeq(t, 1, Len(s))

\* C1: whatever the order in which the jobs complete, the main output is the
\* header once, then the rows of job 1, of job 2, ... of job N, each job's rows
\* together and in the order the job produced them. While the file is being
\* written its lines are a prefix of that sequence, and once scrape_races is
\* done they are that sequence.
C1_OutputInInputOrder ==
    /\ main_file.exists =>
          IsPrefix(main_file.lines, <<csv_header>> \o RowsUpTo(total))
    /\ pc = "done" => main_file.lines = <<csv_header>> \o RowsUpTo(total)

\* Two jobs that both produced rows were yielded by as_completed in the reverse
\* of their input order, and the output is written.
C1_Witness ==
    /\ pc = "done"
    /\ total >= 2
    /\ Len(yielded) >= 2
    /\ yielded[1] > yielded[2]
    /\ outcome[yielded[1]].rows # <<>>
    /\ outcome[yielded[2]].rows # <<>>

\* C2: process never raises: whatever fails inside one job (the fetch, parsing
\* the fetched document, the extraction, a void race, a discipline mismatch),
\* its future holds (index, empty sequence) and no exception.
C2_ProcessNeverRaises ==
    \A i \in 1..total :
        phase[i] = "finished" =>
            /\ ~outcome[i].raised
            /\ (fate[i] \in Failures \/ ~Keeps(code, fate[i])) => outcome[i].rows = <<>>

\* The rows job i contributes when it does not fail.
Contribution(i) ==
    IF fate[i] \in RTypes /\ Keeps(code, fate[i]) THEN csv_data(i) ELSE <<>>

RECURSIVE ContributionsUpTo(_)
ContributionsUpTo(n) ==
    IF n = 0 THEN <<>> ELSE ContributionsUpTo(n - 1) \o Contribution(n)

\* C3: whichever jobs fail during fetch or parse, a run over at least one URL
\* ends normally, and its main output holds exactly the rows of the jobs that
\* did not fail.
C3_FailuresAreIsolated ==
    (Ended /\ total > 0) =>
        /\ pc = "done"
        /\ main_file.lines = <<csv_header>> \o ContributionsUpTo(total)

EffectivePool(r) == IF r < 1 THEN 1 ELSE IF r > 10 THEN 10 ELSE r

\* C4: the pool size is max(1, min(10, requested)) for every requested worker
\* count, and at no time are more jobs in flight than that.
C4_PoolBound ==
    /\ jobs # 0 => jobs = EffectivePool(requested)
    /\ pc \in {"submit", "collect", "unwind", "sort"} => jobs # 0
    /\ Cardinality(InFlight) <= EffectivePool(requested)

\* The pool is full and a submitted job waits for a free worker.
C4_Witness ==
    /\ Cardinality(InFlight) = jobs
    /\ jobs = EffectivePool(requested)
    /\ \E i \in 1..total : phase[i] = "queued"

\* C5: a second run over the same URLs with the same responses, with any worker
\* count and any completion order, leaves the same main output as the first.
C5_SameOutputForAnyWorkerCount ==
    (round = 2 /\ Ended) => main_file = first.file

\* The second run used another pool size, completed its jobs out of input
\* order, and wrote its output.
C5_Witness ==
    /\ round = 2
    /\ pc = "done"
    /\ jobs # first.jobs
    /\ \E m, n \in 1..Len(yielded) : m < n /\ yielded[m] > yielded[n]
    /\ Len(main_file.lines) > 1

\* C6: with no URL, scrape_races is a no-op: no job is dispatched, no side
\* dataset is built, no artifact is written.
C6_EmptyIsNoOp ==
    (total = 0 /\ Ended) =>
        /\ pc = "returned"
        /\ submitted = 0
        /\ betfair = None
        /\ betfairBuilds = 0
        /\ ~betfair_file.exists
        /\ ~main_file.exists

(***************************************************************************)
(* Properties of retry_failed.                                             *)
(***************************************************************************)
\* Some 'dates' part of the path is immediately followed by another part.
Inferable(path) == \E k \in 1..(Len(path) - 1) : path[k] = "dates"

\* A region is given, or one can be inferred from the path.
Resolvable ==
    \/ args_region \notin {NoRegion, ""}
    \/ args_region = NoRegion /\ Inferable(log_path)

\* C7: when the log path does not exist, or no region was given and none can
\* be inferred from a 'dates' part followed by a region part, main never gets
\* past the region check, exits non-zero, and has made no backup, left the log
\* as it was and started no sub-run.
C7_FatalBeforeAnyMutation ==
    (~log_exists \/ (args_region = NoRegion /\ ~Inferable(log_path))) =>
        /\ rpc \in {"start", "region", "check", "exited"}
        /\ rpc = "exited" => exit_code # 0
        /\ log = log0
        /\ backup = backup0
        /\ events = <<>>
        /\ cmds = <<>>

\* main has exited with status 1 on an existing log that holds dates, because
\* no region was given and the path has no 'dates' part.
C7_Witness ==
    /\ rpc = "exited"
    /\ exit_code = 1
    /\ log_exists
    /\ args_region = NoRegion
    /\ \A k \in 1..Len(log_path) : log_path[k] # "dates"
    /\ extract_dates(log0) # <<>>

\* C8: the backup is complete, then the log is truncated, then the first
\* sub-run starts: the log is truncated only when the backup holds its content,
\* it is empty when the first sub-run starts, and from then on it holds only
\* what the sub-runs' scrapes appended.
C8_BackupThenTruncateThenSubRuns ==
    /\ IsPrefix(events, <<"backup", "truncate">> \o [k \in 1..Len(dates) |-> "subrun"])
    /\ Len(cmds) = Max(0, Len(events) - 2)
    /\ rpc = "truncate" => backup = [exists |-> TRUE, content |-> log]
    /\ Len(events) >= 2 => backup = [exists |-> TRUE, content |-> log0]
    /\ Len(events) = 2 => log = <<>>
    /\ Len(events) >= 2 => log = appended

\* A sub-run was started on a log that was not empty, after the backup and the
\* truncation.
C8_Witness ==
    /\ Len(cmds) >= 1
    /\ log0 # <<>>
    /\ SubSeq(events, 1, 3) = <<"backup", "truncate", "subrun">>

\* The second-to-last '/'-delimited segment of a line of text t lies at i..j-1
\* and holds exactly two hyphens: t[j] is the last slash of its line and the
\* segment starts the line or follows a slash.
DateAt(t, i, j) ==
    /\ i <= j
    /\ t[j] = "/"
    /\ \A k \in i..(j - 1) : t[k] \notin {"/", "\n"}
    /\ i = 1 \/ t[i - 1] \in {"/", "\n"}
    /\ \A k \in (j + 1)..Len(t) : t[k] = "/" => \E m \in (j + 1)..(k - 1) : t[m] = "\n"
    /\ Cardinality({k \in i..(j - 1) : t[k] = "-"}) = 2

DatesOf(t) ==
    {SubSeq(t, p[1], p[2] - 1) :
        p \in {q \in (1..Len(t)) \X (1..Len(t)) : DateAt(t, q[1], q[2])}}

\* C9 as stated, for the logs that are not empty: after an invocation on an
\* existing log with a resolvable region, whatever the log holds (also when no
\* date can be extracted from it), the backup holds the log's content at the
\* start and the log holds only what new scrapes wrote.
C9_BackupForEveryLog ==
    (log_exists /\ Resolvable /\ log0 # <<>> /\ rpc = "exited") =>
        /\ backup = [exists |-> TRUE, content |-> log0]
        /\ log = appended

\* C9, amended: on an existing log with a resolvable region from which at least
\* one date can be extracted, the backup holds from its completion on the
\* content the log had at the start, and the log, truncated right after the
\* backup, is empty until a new scrape writes to it and then holds only what
\* the scrapes wrote. When no date can be extracted, no backup is made and the
\* log is left as it is.
C9_BackupWhenDatesFound ==
    (log_exists /\ Resolvable) =>
        IF DatesOf(log0) # {}
        THEN /\ rpc \in {"truncate", "loop", "exited"} =>
                    backup = [exists |-> TRUE, content |-> log0]
             /\ rpc \in {"loop", "exited"} => log = appended
             /\ (rpc \in {"loop", "exited"} /\ appended = <<>>) => log = <<>>
        ELSE /\ backup = backup0
             /\ log = log0
             /\ events = <<>>

\* The invocation is over: an older backup was replaced by the content of a
\* log that was not empty, and the log holds what a failed scrape appended.
C9_Witness ==
    /\ rpc = "exited"
    /\ log0 # <<>>
    /\ backup0 = OldBackup
    /\ backup = [exists |-> TRUE, content |-> log0]
    /\ appended # <<>>
    /\ log = appended

\* C10: extract_dates returns exactly the second-to-last '/'-delimited segments
\* with three hyphen-delimited parts of the lines that have at least two
\* segments, each once and in ascending order; no other part of a line (its
\* region segment, its race id) has any effect, and no text makes it fail.
C10_ExtractDates ==
    rpc # "extract" =>
        /\ {dates[k] : k \in 1..Len(dates)} = DatesOf(log0)
        /\ \A k \in 1..(Len(dates) - 1) : StrLess(dates[k], dates[k + 1])

\* Two dates were extracted from a text that holds the greater one first.
C10_Witness ==
    /\ rpc # "extract"
    /\ Len(dates) = 2
    /\ SubSeq(log0, 1, Len(dates[2])) = dates[2]

\* C11: on an existing log with a resolvable region from which no date can be
\* extracted (an empty, already truncated log in particular), main exits with
\* status 0 right after extract_dates, starts no sub-run and leaves the log and
\* the backup file as they were; so an invocation that follows a retry whose
\* sub-runs appended nothing keeps that retry's backup.
C11_NothingToRetry ==
    (log_exists /\ Resolvable /\ DatesOf(log0) = {}) =>
        /\ rpc \in {"start", "region", "check", "extract", "exited"}
        /\ rpc = "exited" => exit_code = 0
        /\ cmds = <<>>
        /\ log = log0
        /\ backup = backup0

\* The second invocation has exited with status 0: it found the log empty and
\* the backup the first invocation made of a log with dates, and kept both.
C11_Witness ==
    /\ invocation = 2
    /\ rpc = "exited"
    /\ exit_code = 0
    /\ log0 = <<>>
    /\ backup0.exists
    /\ DatesOf(backup0.content) # {}
    /\ backup = backup0
    /\ log = <<>>

\* The region main works with: the one given, else the part of the path that
\* follows its first 'dates' part.
ResolvedRegion ==
    IF args_region # NoRegion THEN args_region
    ELSE LET k0 == CHOOSE k \in 1..Len(log_path) :
                      /\ log_path[k] = "dates"
                      /\ \A j \in 1..(k - 1) : log_path[j] # "dates"
         IN  log_path[k0 + 1]

\* C12: the sub-runs are started one at a time, one for each recovered date in
\* ascending order of the dates, each with the resolved region and the worker
\* count clamped to 1..10; a sub-run that fails does not keep the later dates
\* from their sub-runs, and main then exits with status 0.
C12_OneSubRunPerDate ==
    /\ Len(cmds) = d
    /\ Len(returncodes) = Len(cmds)
    /\ Len(cmds) <= Len(dates)
    /\ \A k \in 1..Len(cmds) :
          /\ replace(cmds[k].date_arg, "/", "-") = dates[k]
          /\ cmds[k].region = ResolvedRegion
          /\ cmds[k].jobs = EffectivePool(args_jobs)
    /\ cmds # <<>> =>
          /\ {dates[k] : k \in 1..Len(dates)} = DatesOf(log0)
          /\ \A k \in 1..(Len(dates) - 1) : StrLess(dates[k], dates[k + 1])
    /\ (rpc = "exited" /\ Len(events) >= 2) =>
          /\ Len(cmds) = Len(dates)
          /\ exit_code = 0

\* main has exited with status 0 after two sub-runs with an inferred region,
\* the first of which failed.
C12_Witness ==
    /\ rpc = "exited"
    /\ exit_code = 0
    /\ args_region = NoRegion
    /\ Len(cmds) = 2
    /\ returncodes[1] = 1
    /\ args_jobs > 10

(***************************************************************************)
(* Properties of get_race_urls and get_race_urls_date.                     *)
(***************************************************************************)
\* The URLs of the listings that parse and whose links all have a course part.
GoodListingUrls ==
    UNION {ListingUrls(mode, queries[k], listings[k]) :
              k \in {j \in 1..Len(listings) : ~ListingRaises(mode, listings[j])}}

\* C13: in both modes a listing response that is empty or malformed is
\* skipped: the pass never ends with an exception, and it returns the URLs of
\* all the other dates or (course, year) pairs.
C13_BadListingSkipped ==
    /\ dpc # "raised"
    /\ dpc = "returned" =>
          {url_list[k] : k \in 1..Len(url_list)} = GoodListingUrls

\* Every URL a listing of the pass yields.
AcceptedUrls ==
    UNION {ListingUrls(mode, queries[k], listings[k]) : k \in 1..Len(listings)}

\* C14: the sequence a discovery pass returns is strictly ascending in the
\* order of str (so sorted and without a duplicate) and holds every accepted
\* URL and nothing else, in both modes.
C14_SortedNoDuplicates ==
    dpc = "returned" =>
        /\ \A k \in 1..(Len(url_list) - 1) : StrLess(url_list[k], url_list[k + 1])
        /\ {url_list[k] : k \in 1..Len(url_list)} = AcceptedUrls

\* Two listings of one pass yield a common URL, and the pass returned it
\* together with another URL.
C14_Witness ==
    /\ dpc = "returned"
    /\ Len(listings) = 2
    /\ ListingUrls(mode, queries[1], listings[1])
         \cap ListingUrls(mode, queries[2], listings[2]) # {}
    /\ Len(url_list) >= 2

(***************************************************************************)
(* Properties of the worker and of the pipeline of scrape_races.           *)
(***************************************************************************)
\* The jobs whose page was fetched, parsed and extracted.
Extracted == {i \in 1..total : phase[i] = "finished" /\ fate[i] \in RTypes}

\* C15: a job that extracted its race returns the race's records exactly when
\* the discipline is flat and the type Flat, or the discipline is jumps and
\* the type Chase, Hurdle or NH Flat; otherwise it returns the empty sequence,
\* as a void race does.
C15_DisciplineFilter ==
    \A i \in Extracted :
        LET match == \/ code = "flat" /\ fate[i] = "Flat"
                     \/ code = "jumps" /\ fate[i] \in {"Chase", "Hurdle", "NH Flat"}
        IN  /\ ~outcome[i].raised
            /\ match => outcome[i].rows = csv_data(i)
            /\ ~match => outcome[i].rows = <<>>
            /\ (fate[i] = "Hurdle") => (outcome[i].rows # <<>> <=> code = "jumps")
            /\ (fate[i] = "Flat") => (outcome[i].rows # <<>> <=> code = "flat")

\* Under jumps a Hurdle race was kept and a Flat race was discarded, and the
\* output is written.
C15_Witness ==
    /\ pc = "done"
    /\ code = "jumps"
    /\ \E i, j \in Extracted :
          /\ fate[i] = "Hurdle" /\ outcome[i].rows = csv_data(i)
          /\ fate[j] = "Flat" /\ outcome[j].rows = <<>>

\* C16: the main output exists only in the aggregation step, which starts
\* after every job has completed and every result is buffered; it is never
\* open while a job is queued or in flight; a run that ended with an
\* exception, or returned early, has created no main output.
C16_SinkAfterAllJobs ==
    /\ main_file # NoFile =>
          /\ pc \in {"header", "rows", "done"}
          /\ submitted = total
          /\ \A i \in 1..total : phase[i] = "finished"
          /\ Len(results) = total
    /\ main_file.open => InFlight = {} /\ main_file.exists
    /\ pc \in {"unwind", "raised", "returned"} => main_file = NoFile

\* The main output is open and holds its header, with two completed jobs in
\* the buffer.
C16_Witness ==
    /\ main_file.open
    /\ main_file.lines = <<csv_header>>
    /\ total = 2
    /\ Len(results) = 2

\* The number of lines of the main output equal to the row.
Written(row) == Cardinality({n \in 1..Len(main_file.lines) : main_file.lines[n] = row})

\* C17: the jobs submitted so far are those of the input positions 1..submitted,
\* one per position; a job makes at most one fetch, and exactly one once it
\* runs; from the start of aggregation on, the buffer holds one result per
\* index 1..total, the job's own; once the output is written every row of
\* every result appears in it exactly once.
C17_OneJobOneFetchOneResult ==
    /\ submitted <= total
    /\ \A i \in 1..total :
          /\ phase[i] # "new" <=> i <= submitted
          /\ fetches[i] <= 1
          /\ phase[i] \in {"fetching", "finished"} <=> fetches[i] = 1
    /\ pc \in {"collect", "unwind", "raised", "sort", "open", "header", "rows", "done"} =>
          submitted = total
    /\ Len(results) <= total
    /\ \A k \in 1..Len(results) :
          /\ results[k][1] \in 1..total
          /\ results[k][2] = outcome[results[k][1]].rows
          /\ \A j \in 1..Len(results) : results[j][1] = results[k][1] => j = k
    /\ pc \in {"sort", "open", "header", "rows", "done"} =>
          {results[k][1] : k \in 1..Len(results)} = 1..total
    /\ pc = "done" =>
          /\ \A k \in 1..Len(results) :
                \A n \in 1..Len(results[k][2]) : Written(results[k][2][n]) = 1
          /\ Len(main_file.lines) = 1 + Len(RowsUpTo(total))

\* Two jobs, the first one's fetch failed, the second completed before the
\* first, each fetched once, and the output is written.
C17_Witness ==
    /\ pc = "done"
    /\ total = 2
    /\ fate[1] = "fetch_error"
    /\ fate[2] \in RTypes
    /\ yielded = <<2, 1>>
    /\ fetches[1] = 1 /\ fetches[2] = 1
    /\ Len(main_file.lines) = 1 + RowsPerRace

\* C18: the side dataset is built at most once, from the whole URL set; while
\* it is being built or its artifact written no job is submitted or fetching;
\* when a job is submitted the artifact is written and closed; every worker
\* that read the side dataset read the value it still has.
C18_SideDatasetBeforeDispatch ==
    /\ betfairBuilds <= 1
    /\ betfair.built <=> betfairBuilds = 1
    /\ betfair.built => betfair = Betfair(1..total)
    /\ pc \in {"start", "betfair", "betfair_write", "count"} =>
          /\ submitted = 0
          /\ \A i \in 1..total : phase[i] = "new" /\ fetches[i] = 0
    /\ (betfair.built /\ pc # "betfair_write") =>
          betfair_file = [exists |-> TRUE, open |-> FALSE, lines |-> BetfairLines(betfair)]
    /\ ~betfair.built => betfair_file = NoFile
    /\ \A i \in 1..total : seen[i] # <<>> => seen[i] = <<betfair>>

\* Enrichment is active, two jobs are fetching at once and none has finished.
C18_Witness ==
    /\ betfair.built
    /\ total = 2
    /\ InFlight = {1, 2}
    /\ betfair_file.lines = BetfairLines(Betfair({1, 2}))

\* C19: under fair scheduling a run over at least one URL stops only after
\* the aggregation step has written the output: in a state where no step of
\* the run is possible every job has completed and scrape_races is done, and
\* no other state of a run is without a next step.
C19_RunsToCompletion ==
    ~ENABLED Next =>
        /\ Ended
        /\ total > 0 => (pc = "done" /\ \A i \in 1..total : phase[i] = "finished")

====
